---- MODULE Spec2Model ----
(***************************************************************************)
(* State-machine model of the hotkey utility: the polling loop of          *)
(* src/main.rs, the AudioRecorder of src/audio.rs (with its capture        *)
(* callback thread), the Transcriber of src/transcribe.rs, the             *)
(* ClipboardManager of src/clipboard.rs and the Narrator / NarratorConfig  *)
(* of src/narrate.rs.                                                      *)
(*                                                                         *)
(* Specifications:                                                         *)
(*   Spec          the program: main() from NarratorConfig::load onwards    *)
(*   SpecRecorder  an AudioRecorder driven by arbitrary start/stop calls   *)
(*   SpecNarrator  a Narrator driven by arbitrary speak/stop/is_playing    *)
(*   SpecLoad      NarratorConfig::load over a set of environments         *)
(*   SpecAnyCaller the Narrator called by main() or by any other caller  *)
(***************************************************************************)
EXTENDS Integers, Sequences, FiniteSets, TLC

\* Bounds of the model (not program constants).
MaxChunks == 2
MaxPlayers == 2
MaxLines == 2

VARIABLES
  \* ---- main(): src/main.rs
  pc,            \* position of the main thread
  caller,        \* "main" | "harness": who calls the recorder / narrator
  is_f9, is_f10, \* main.rs:97-98
  was_f9, was_f10, \* main.rs:92-93
  trace,         \* history: the calls made in the current loop iteration
  rec_open,      \* history: recorder.start calls minus recorder.stop calls
  \* ---- AudioRecorder: src/audio.rs
  device,        \* self.device is Some
  stream,        \* self.stream: "none" | "playing"
  local_stream,  \* the local `stream` of start(): "none" | "built" | "playing"
  buffer,        \* the Vec<f32> behind the mutex
  lock,          \* owner of the mutex: "none" | "main" | "cb"
  cb_pc,         \* position of the capture callback thread
  cb_chunk,      \* the chunk (data: &[f32]) the running callback was given
  next_chunk,    \* chunks delivered so far (their ids)
  audio_data,    \* the Vec returned by stop()
  rec_ret,       \* result of the last recorder call
  last_start,    \* history: result of the latest recorder.start(): "none" | "ok" | "err"
  delivered,     \* history: samples delivered since the last successful start / take
  deliveredClr,  \* history: samples delivered since the buffer was last emptied
  returned,      \* history: chunk ids some stop() has returned
  \* ---- Transcriber, ClipboardManager, temp_input.wav
  wav_file,      \* content of temp_input.wav (None: no such file)
  proc,          \* what the whisper process of this transcribe call did
  tr_ret,        \* result of transcribe(): "none" | "ok" | "err"
  text,          \* the text transcribe() returned
  tr_input,      \* the WAV content the whisper process read
  clipboard,     \* system clipboard text
  pasted,        \* text typed at the cursor in this iteration (None if none)
  \* ---- Narrator: src/narrate.rs
  platform,      \* cfg(target_os): "windows" | "other"
  narrator,      \* Option<Narrator> is Some
  current_process, \* 0 = None, else the pid of the tracked player
  alive,         \* pids of the player processes that are running
  next_pid,      \* players spawned so far
  playing_ret,   \* result of the last is_playing(): "none" | "true" | "false"
  f10_obs,       \* history: the tracked player when is_playing was last called:
                 \* "untracked" (no handle) | "running" | "finished" (exited)
  sel,           \* Result of get_selected_text(): st "none" | "err" | "ok", and the text
  sp_piper,      \* what the piper process of the last speak did
  sp_ret,        \* result of the last speak()
  sp_spawned,    \* the last speak() spawned a player
  sp_text,       \* history: the text the last speak() was called with (None: no call)
  killed,        \* history: pid of the running player the last stop() killed (0: none)
  \* ---- NarratorConfig::load
  cfg_file,      \* tts_config.txt: st "absent" | "unreadable" | "file" | "no_cwd", and its lines
  env_vars,      \* environment: name -> Option of a value
  fs_exists,     \* paths that exist
  config         \* result of load(): st "none" | "ok" | an error, and the fields

mainVars == <<pc, caller, is_f9, is_f10, was_f9, was_f10, trace, rec_open>>
recVars  == <<device, stream, local_stream, buffer, lock, cb_pc, cb_chunk,
              next_chunk, audio_data, rec_ret, last_start, delivered, deliveredClr, returned>>
sttVars  == <<wav_file, proc, tr_ret, text, tr_input, clipboard, pasted>>
narVars  == <<platform, narrator, current_process, alive, next_pid, playing_ret,
              f10_obs, sel, sp_piper, sp_ret, sp_spawned, sp_text, killed>>
loadVars == <<cfg_file, env_vars, fs_exists, config>>
vars == <<mainVars, recVars, sttVars, narVars, loadVars>>

\* Where a recorder / narrator call returns to.
Ret(to_main) == IF caller = "main" THEN to_main ELSE "harness"

\* Option<T>
None == [some |-> FALSE, v |-> <<>>]
Some(x) == [some |-> TRUE, v |-> x]

(***************************************************************************)
(* AudioRecorder (src/audio.rs)                                            *)
(***************************************************************************)

\* data: &[f32] of one callback invocation: two samples of chunk c.
Chunk(c) == << <<c, 1>>, <<c, 2>> >>

\* Streams that exist: the one held in self.stream and start()'s local one.
NumStreams == (IF stream = "none" THEN 0 ELSE 1) + (IF local_stream = "none" THEN 0 ELSE 1)

\* A stream delivers data once play() succeeded on it and until it is dropped.
StreamRunning == stream = "playing" \/ local_stream = "playing"

recFrame == UNCHANGED <<caller, is_f9, is_f10, was_f9, was_f10, trace, rec_open,
                        sttVars, narVars, loadVars>>

\* audio.rs:75 the device invokes the data callback with a new chunk.
CbInvoke ==
  /\ cb_pc = "idle"
  /\ StreamRunning
  /\ next_chunk < MaxChunks
  /\ next_chunk' = next_chunk + 1
  /\ cb_chunk' = next_chunk + 1
  /\ cb_pc' = "lock"
  /\ delivered' = delivered \o Chunk(next_chunk + 1)
  /\ deliveredClr' = deliveredClr \o Chunk(next_chunk + 1)
  /\ UNCHANGED <<device, stream, local_stream, buffer, lock, audio_data, rec_ret, last_start, returned>>
  /\ UNCHANGED pc /\ recFrame

\* audio.rs:76 buffer_clone.lock()
CbLock ==
  /\ cb_pc = "lock"
  /\ lock = "none"
  /\ lock' = "cb"
  /\ cb_pc' = "extend1"
  /\ UNCHANGED <<device, stream, local_stream, buffer, cb_chunk, next_chunk, audio_data,
                 rec_ret, last_start, delivered, deliveredClr, returned>>
  /\ UNCHANGED pc /\ recFrame

\* audio.rs:77 lock.extend_from_slice(data), first sample copied
CbExtend1 ==
  /\ cb_pc = "extend1"
  /\ buffer' = Append(buffer, Chunk(cb_chunk)[1])
  /\ cb_pc' = "extend2"
  /\ UNCHANGED <<device, stream, local_stream, lock, cb_chunk, next_chunk, audio_data,
                 rec_ret, last_start, delivered, deliveredClr, returned>>
  /\ UNCHANGED pc /\ recFrame

\* audio.rs:77-78 second sample copied, guard dropped at the end of the block
CbExtend2 ==
  /\ cb_pc = "extend2"
  /\ buffer' = Append(buffer, Chunk(cb_chunk)[2])
  /\ lock' = "none"
  /\ cb_pc' = "idle"
  /\ cb_chunk' = 0
  /\ UNCHANGED <<device, stream, local_stream, next_chunk, audio_data,
                 rec_ret, last_start, delivered, deliveredClr, returned>>
  /\ UNCHANGED pc /\ recFrame

\* audio.rs:53-54 if let Some(stream) = self.stream.take() { drop(stream); ... }
StartTake ==
  /\ pc = "start_take"
  /\ stream' = "none"
  /\ pc' = IF stream # "none" THEN "start_sleep" ELSE "start_config"
  /\ UNCHANGED <<device, local_stream, buffer, lock, cb_pc, cb_chunk, next_chunk,
                 audio_data, rec_ret, last_start, delivered, deliveredClr, returned>>
  /\ recFrame

\* audio.rs:55 sleep(50 ms): a callback that was running when the stream was
\* dropped has finished by the end of the delay.
StartSleep ==
  /\ pc = "start_sleep"
  /\ cb_pc = "idle"
  /\ pc' = "start_config"
  /\ UNCHANGED recVars
  /\ recFrame

\* audio.rs:58-62 the device must be set and default_input_config() must succeed;
\* either failure returns Err before the buffer is touched.
StartConfig(config_ok) ==
  /\ pc = "start_config"
  /\ IF device /\ config_ok
       THEN /\ pc' = "start_lock"
            /\ UNCHANGED <<rec_ret, last_start>>
       ELSE /\ pc' = Ret("f10")
            /\ rec_ret' = "start_err" /\ last_start' = "err"
  /\ UNCHANGED <<device, stream, local_stream, buffer, lock, cb_pc, cb_chunk, next_chunk,
                 audio_data, delivered, deliveredClr, returned>>
  /\ recFrame

\* audio.rs:66 self.buffer.lock()
StartLock ==
  /\ pc = "start_lock"
  /\ lock = "none"
  /\ lock' = "main"
  /\ pc' = "start_clear"
  /\ UNCHANGED <<device, stream, local_stream, buffer, cb_pc, cb_chunk, next_chunk,
                 audio_data, rec_ret, last_start, delivered, deliveredClr, returned>>
  /\ recFrame

\* Mutant of StartClear: the buffer is not cleared before the new recording.
StartClear_keep ==
  /\ pc = "start_clear"
  /\ deliveredClr' = <<>>
  /\ lock' = "none"
  /\ pc' = "start_build"
  /\ UNCHANGED <<device, stream, local_stream, buffer, cb_pc, cb_chunk, next_chunk,
                 audio_data, rec_ret, last_start, delivered, returned>>
  /\ recFrame

\* audio.rs:67-68 lock.clear(); the guard is dropped at the end of the block
StartClear ==
  /\ pc = "start_clear"
  /\ buffer' = <<>>
  /\ deliveredClr' = <<>>
  /\ lock' = "none"
  /\ pc' = "start_build"
  /\ UNCHANGED <<device, stream, local_stream, cb_pc, cb_chunk, next_chunk,
                 audio_data, rec_ret, last_start, delivered, returned>>
  /\ recFrame

\* audio.rs:73-82 device.build_input_stream(..)?
StartBuild(build_ok) ==
  /\ pc = "start_build"
  /\ IF build_ok
       THEN /\ local_stream' = "built"
            /\ pc' = "start_play"
            /\ UNCHANGED <<rec_ret, last_start>>
       ELSE /\ pc' = Ret("f10")
            /\ rec_ret' = "start_err" /\ last_start' = "err"
            /\ UNCHANGED local_stream
  /\ UNCHANGED <<device, stream, buffer, lock, cb_pc, cb_chunk, next_chunk,
                 audio_data, delivered, deliveredClr, returned>>
  /\ recFrame

\* audio.rs:84 stream.play()?  On Err the local stream is dropped by the return.
StartPlay(play_ok) ==
  /\ pc = "start_play"
  /\ IF play_ok
       THEN /\ local_stream' = "playing"
            /\ delivered' = <<>>
            /\ pc' = "start_store"
            /\ UNCHANGED <<rec_ret, last_start>>
       ELSE /\ local_stream' = "none"
            /\ pc' = Ret("f10")
            /\ rec_ret' = "start_err" /\ last_start' = "err"
            /\ UNCHANGED delivered
  /\ UNCHANGED <<device, stream, buffer, lock, cb_pc, cb_chunk, next_chunk,
                 audio_data, deliveredClr, returned>>
  /\ recFrame

\* audio.rs:85-87 self.stream = Some(stream); Ok(())
StartStore ==
  /\ pc = "start_store"
  /\ stream' = local_stream
  /\ local_stream' = "none"
  /\ rec_ret' = "start_ok" /\ last_start' = "ok"
  /\ pc' = Ret("f10")
  /\ UNCHANGED <<device, buffer, lock, cb_pc, cb_chunk, next_chunk,
                 audio_data, delivered, deliveredClr, returned>>
  /\ recFrame

\* audio.rs:92-94 if let Some(stream) = self.stream.take() { drop(stream); }
StopDrop ==
  /\ pc = "stop_drop"
  /\ stream' = "none"
  /\ pc' = "stop_sleep"
  /\ UNCHANGED <<device, local_stream, buffer, lock, cb_pc, cb_chunk, next_chunk,
                 audio_data, rec_ret, last_start, delivered, deliveredClr, returned>>
  /\ recFrame

\* audio.rs:96-97 "Small delay to ensure stream callback has finished"
StopSleep ==
  /\ pc = "stop_sleep"
  /\ cb_pc = "idle"
  /\ pc' = "stop_lock"
  /\ UNCHANGED recVars
  /\ recFrame

\* Mutant of StopLock: stop() reads the buffer without taking the mutex.
StopLock_unlocked ==
  /\ pc = "stop_lock"
  /\ pc' = "stop_take"
  /\ UNCHANGED recVars
  /\ recFrame

\* audio.rs:100 self.buffer.lock()
StopLock ==
  /\ pc = "stop_lock"
  /\ lock = "none"
  /\ lock' = "main"
  /\ pc' = "stop_take"
  /\ UNCHANGED <<device, stream, local_stream, buffer, cb_pc, cb_chunk, next_chunk,
                 audio_data, rec_ret, last_start, delivered, deliveredClr, returned>>
  /\ recFrame

\* Mutant of StopTake: stop() returns a copy and leaves the samples in the buffer.
StopTake_copy ==
  /\ pc = "stop_take"
  /\ audio_data' = buffer
  /\ lock' = "none"
  /\ rec_ret' = "stop_ok" /\ UNCHANGED last_start
  /\ delivered' = <<>>
  /\ deliveredClr' = <<>>
  /\ returned' = returned \cup {buffer[i][1] : i \in 1..Len(buffer)}
  /\ pc' = Ret("check_empty")
  /\ UNCHANGED <<device, stream, local_stream, buffer, cb_pc, cb_chunk, next_chunk>>
  /\ recFrame

\* audio.rs:101-102 std::mem::take(&mut *lock); Ok(data); the guard is dropped
StopTake ==
  /\ pc = "stop_take"
  /\ audio_data' = buffer
  /\ buffer' = <<>>
  /\ lock' = "none"
  /\ rec_ret' = "stop_ok" /\ UNCHANGED last_start
  /\ delivered' = <<>>
  /\ deliveredClr' = <<>>
  /\ returned' = returned \cup {buffer[i][1] : i \in 1..Len(buffer)}
  /\ pc' = Ret("check_empty")
  /\ UNCHANGED <<device, stream, local_stream, cb_pc, cb_chunk, next_chunk>>
  /\ recFrame

\* A caller of the AudioRecorder API: start() or stop(), in any order.
HStart ==
  /\ pc = "harness" /\ caller = "harness"
  /\ pc' = "start_take"
  /\ rec_ret' = "none" /\ UNCHANGED last_start
  /\ UNCHANGED <<device, stream, local_stream, buffer, lock, cb_pc, cb_chunk, next_chunk,
                 audio_data, delivered, deliveredClr, returned>>
  /\ recFrame

HStop ==
  /\ pc = "harness" /\ caller = "harness"
  /\ pc' = "stop_drop"
  /\ rec_ret' = "none" /\ UNCHANGED last_start
  /\ audio_data' = <<>>
  /\ UNCHANGED <<device, stream, local_stream, buffer, lock, cb_pc, cb_chunk, next_chunk,
                 delivered, deliveredClr, returned>>
  /\ recFrame

\* The steps of the callback thread and of start() and stop().  StartSleep is
\* listed apart: main() never calls start() with a stream held (main.rs:101-110
\* alternates start and stop), so only SpecRecorder takes it.
RecorderSteps ==
  \/ CbInvoke \/ CbLock \/ CbExtend1 \/ CbExtend2
  \/ StartTake
  \/ \E ok \in BOOLEAN : StartConfig(ok)
  \/ StartLock \/ StartClear
  \/ \E ok \in BOOLEAN : StartBuild(ok)
  \/ \E ok \in BOOLEAN : StartPlay(ok)
  \/ StartStore
  \/ StopDrop \/ StopSleep \/ StopLock \/ StopTake

NoProc == [cwd |-> TRUE, status |-> "none", stdout |-> <<>>]
NoSel == [st |-> "none", v |-> <<>>]
NoFile == [st |-> "absent", lines |-> <<>>]
NoEnv == [PIPER_PATH |-> None, PIPER_MODEL |-> None, SPEED |-> None]
NoConfig == [st |-> "none", piper_path |-> <<>>, model_path |-> <<>>, speed |-> ""]

\* AudioRecorder::new() (audio.rs:34-41), the fields the other components start with.
RecorderNew ==
  /\ stream = "none" /\ local_stream = "none"
  /\ buffer = <<>> /\ lock = "none"
  /\ cb_pc = "idle" /\ cb_chunk = 0 /\ next_chunk = 0
  /\ audio_data = <<>> /\ rec_ret = "none" /\ last_start = "none"
  /\ delivered = <<>> /\ deliveredClr = <<>> /\ returned = {}

SttNew ==
  /\ wav_file = None /\ proc = NoProc /\ tr_ret = "none" /\ text = <<>>
  /\ tr_input = None /\ clipboard = <<>> /\ pasted = None

NarratorNew ==
  /\ current_process = 0 /\ alive = {} /\ next_pid = 0
  /\ playing_ret = "none" /\ f10_obs = "none" /\ sel = NoSel
  /\ sp_piper = "none" /\ sp_ret = "none" /\ sp_spawned = FALSE /\ killed = 0
  /\ sp_text = None

MainNew ==
  /\ is_f9 = FALSE /\ is_f10 = FALSE /\ was_f9 = FALSE /\ was_f10 = FALSE
  /\ trace = <<>> /\ rec_open = 0

InitRecorder ==
  /\ pc = "harness" /\ caller = "harness"
  /\ MainNew /\ RecorderNew /\ SttNew /\ NarratorNew
  /\ device \in BOOLEAN
  /\ platform = "windows" /\ narrator = FALSE
  /\ cfg_file = NoFile /\ env_vars = NoEnv /\ fs_exists = {} /\ config = NoConfig

NextRecorder == HStart \/ HStop \/ RecorderSteps \/ StartSleep

SpecRecorder == InitRecorder /\ [][NextRecorder]_vars

(***************************************************************************)
(* Texts: sequences of tokens; "sp" is a whitespace character, "w" a word   *)
(***************************************************************************)

RECURSIVE SeqsUpTo(_, _)
SeqsUpTo(S, n) ==
  IF n = 0 THEN {<<>>}
  ELSE LET shorter == SeqsUpTo(S, n - 1)
       IN shorter \cup {Append(t, x) : t \in shorter, x \in S}

\* str::trim_start / trim_end / trim
RECURSIVE TrimStart(_)
TrimStart(t) == IF t # <<>> /\ Head(t) = "sp" THEN TrimStart(Tail(t)) ELSE t
RECURSIVE TrimEnd(_)
TrimEnd(t) ==
  IF t # <<>> /\ t[Len(t)] = "sp" THEN TrimEnd(SubSeq(t, 1, Len(t) - 1)) ELSE t
Trim(t) == TrimEnd(TrimStart(t))

\* text.trim().is_empty()  (narrate.rs:146, main.rs:156)
Blank(t) == Trim(t) = <<>>

\* Texts a selection may hold: empty, whitespace only, a word, a padded word.
Texts == { <<>>, <<"sp">>, <<"w">>, <<"sp", "w", "sp">> }

(***************************************************************************)
(* Narrator (src/narrate.rs:81-267)                                        *)
(***************************************************************************)

narFrame == UNCHANGED <<caller, is_f9, is_f10, was_f9, was_f10, rec_open,
                        recVars, sttVars, loadVars, platform, narrator>>

\* child.try_wait() (narrate.rs:100): Ok(None) while the child runs; once it has
\* exited, Ok(Some(status)), or Err when the status can no longer be read.
TryWait(child) == IF child \in alive THEN {"running"} ELSE {"exited", "error"}

\* Mutant of IsPlayingResult: a tracked handle counts as playing, exited or not.
IsPlayingResult_handleOnly(handle, tw) == handle # 0

\* narrate.rs:96-115 the value is_playing returns
IsPlayingResult(handle, tw) == handle # 0 /\ tw = "running"

\* narrate.rs:102-110 the handle is cleared when the child is found not running
IsPlayingHandle(handle, tw) == IF handle # 0 /\ tw # "running" THEN 0 ELSE handle

\* Mutant of KillTracked: the handle is taken but the player is not killed.
KillTracked_noKill(handle, running) == running

\* narrate.rs:120-138 guard.take(), kill (taskkill /F /T or child.kill()) and
\* child.wait(): when stop returns the taken child is not running.
KillTracked(handle, running) == running \ {handle}

\* narrate.rs:182-203 / 242-256: does speak go on to the player after piper?
\* Windows checks output.status.success(); elsewhere piper.wait()? only
\* propagates a failure of the wait itself and the exit status is discarded.
PiperPassed(plat, piper) ==
  IF plat = "windows" THEN piper = "exit_ok"
  ELSE piper \in {"exit_ok", "exit_fail"}

PiperOutcomes == {"spawn_err", "wait_err", "exit_fail", "exit_ok"}

\* The player can be spawned while the model has pids left.
PlayerSpawns == IF next_pid < MaxPlayers THEN BOOLEAN ELSE {FALSE}

\* narrate.rs:96-115 is_playing()
IsPlaying(tw) ==
  /\ playing_ret' = IF IsPlayingResult(current_process, tw) THEN "true" ELSE "false"
  /\ f10_obs' = IF current_process = 0 THEN "untracked"
                ELSE IF current_process \in alive THEN "running" ELSE "finished"
  /\ current_process' = IsPlayingHandle(current_process, tw)
  /\ UNCHANGED <<alive, next_pid, sel, sp_piper, sp_ret, sp_spawned, sp_text, killed>>

\* narrate.rs:118-141 stop()
NarStop ==
  /\ current_process' = 0
  /\ alive' = KillTracked(current_process, alive)
  /\ killed' = IF current_process \in alive THEN current_process ELSE 0
  /\ UNCHANGED <<next_pid, playing_ret, f10_obs, sel, sp_piper, sp_ret, sp_spawned, sp_text>>

\* Mutant of SpeakRejects: speak does not look at the text.
SpeakRejects_never(t) == FALSE

\* narrate.rs:146-148 speak returns Err("No text to speak") before anything else
SpeakRejects(t) == Blank(t)

\* narrate.rs:145-266 speak(text)
Speak(t, piper, player_ok) ==
  /\ sp_text' = Some(t)
  /\ IF SpeakRejects(t)
      THEN /\ sp_ret' = "err_no_text"
           /\ sp_piper' = "none"
           /\ sp_spawned' = FALSE
           /\ UNCHANGED <<current_process, alive, next_pid, playing_ret, f10_obs, sel, killed>>
      ELSE /\ sp_piper' = piper
           /\ killed' = IF current_process \in alive THEN current_process ELSE 0
           /\ IF PiperPassed(platform, piper) /\ player_ok
                THEN /\ next_pid' = next_pid + 1
                     /\ alive' = KillTracked(current_process, alive) \cup {next_pid + 1}
                     /\ current_process' = next_pid + 1
                     /\ sp_spawned' = TRUE
                     /\ sp_ret' = "ok"
                ELSE /\ alive' = KillTracked(current_process, alive)
                     /\ current_process' = 0
                     /\ sp_spawned' = FALSE
                     /\ sp_ret' = "err"
                     /\ UNCHANGED next_pid
           /\ UNCHANGED <<playing_ret, f10_obs, sel>>

\* The player finishes playing on its own.
PlayerExit ==
  /\ \E p \in alive : alive' = alive \ {p}
  /\ UNCHANGED <<current_process, next_pid, playing_ret, f10_obs, sel,
                 sp_piper, sp_ret, sp_spawned, sp_text, killed>>
  /\ UNCHANGED <<pc, trace>> /\ narFrame

\* A caller of the Narrator API: speak, stop and is_playing in any order.
HSpeak ==
  /\ pc = "harness" /\ caller = "harness"
  /\ \E t \in Texts, piper \in PiperOutcomes, ok \in PlayerSpawns : Speak(t, piper, ok)
  /\ trace' = <<"speak">>
  /\ UNCHANGED pc /\ narFrame

HNarStop ==
  /\ pc = "harness" /\ caller = "harness"
  /\ NarStop
  /\ trace' = <<"nstop">>
  /\ UNCHANGED pc /\ narFrame

HIsPlaying ==
  /\ pc = "harness" /\ caller = "harness"
  /\ \E tw \in TryWait(current_process) : IsPlaying(tw)
  /\ trace' = <<"is_playing">>
  /\ UNCHANGED pc /\ narFrame

InitNarrator ==
  /\ pc = "harness" /\ caller = "harness"
  /\ MainNew /\ RecorderNew /\ SttNew /\ NarratorNew
  /\ device = TRUE
  /\ platform \in {"windows", "other"} /\ narrator = TRUE
  /\ cfg_file = NoFile /\ env_vars = NoEnv /\ fs_exists = {} /\ config = NoConfig

NextNarrator == HSpeak \/ HNarStop \/ HIsPlaying \/ PlayerExit

SpecNarrator == InitNarrator /\ [][NextNarrator]_vars

(***************************************************************************)
(* NarratorConfig::load (src/narrate.rs:14-79)                             *)
(* A line of tts_config.txt is a sequence of tokens: "sp" whitespace, "#",  *)
(* "=", a key name, or a value word.                                       *)
(***************************************************************************)

DefaultPiper == <<"cwd/piper.exe">>          \* narrate.rs:55
DefaultModel == <<"cwd/piper-model.onnx">>   \* narrate.rs:56
DefaultSpeed == "1.0"                        \* narrate.rs:24

\* Tokens that f32::from_str accepts.
NumTokens == {"2.0", "3.0"}

\* value.parse().unwrap_or(1.0)  (narrate.rs:39)
ParseSpeed(v) == IF Len(v) = 1 /\ v[1] \in NumTokens THEN v[1] ELSE DefaultSpeed

\* Position of the first '=' of a line (0: none): line.split_once('=')
FirstEq(l) ==
  IF \E i \in 1..Len(l) : l[i] = "="
    THEN CHOOSE i \in 1..Len(l) : l[i] = "=" /\ \A j \in 1..(i - 1) : l[j] # "="
    ELSE 0

\* narrate.rs:29-33 a line that is not blank, not a comment and has an '='
IsEntry(line) ==
  LET l == Trim(line)
  IN l # <<>> /\ Head(l) # "#" /\ FirstEq(l) # 0

\* narrate.rs:34-35 key.trim(), value.trim() of an entry
EntryKey(line) == LET l == Trim(line) IN Trim(SubSeq(l, 1, FirstEq(l) - 1))
EntryValue(line) == LET l == Trim(line) IN Trim(SubSeq(l, FirstEq(l) + 1, Len(l)))

\* narrate.rs:28-43 one iteration of the loop over the lines
ApplyLine(st, line) ==
  IF ~IsEntry(line) THEN st
  ELSE CASE EntryKey(line) = <<"PIPER_PATH">> -> [st EXCEPT !.piper = Some(EntryValue(line))]
         [] EntryKey(line) = <<"PIPER_MODEL">> -> [st EXCEPT !.model = Some(EntryValue(line))]
         [] EntryKey(line) = <<"SPEED">> -> [st EXCEPT !.speed = ParseSpeed(EntryValue(line))]
         [] OTHER -> st

RECURSIVE ParseLines(_, _)
ParseLines(st, lines) ==
  IF lines = <<>> THEN st ELSE ParseLines(ApplyLine(st, Head(lines)), Tail(lines))

\* Mutant of EnvOverride: an environment value is used only when the config
\* file gave none.
EnvOverride_fileWins(st, env) ==
  [st EXCEPT !.piper = IF ~@.some /\ env.PIPER_PATH.some THEN env.PIPER_PATH ELSE @,
             !.model = IF ~@.some /\ env.PIPER_MODEL.some THEN env.PIPER_MODEL ELSE @]

\* narrate.rs:46-52 environment variables override the config file
EnvOverride(st, env) ==
  [st EXCEPT !.piper = IF env.PIPER_PATH.some THEN env.PIPER_PATH ELSE @,
             !.model = IF env.PIPER_MODEL.some THEN env.PIPER_MODEL ELSE @]

ConfigErr(why) == [st |-> why, piper_path |-> <<>>, model_path |-> <<>>, speed |-> ""]

\* narrate.rs:17-78 NarratorConfig::load()
LoadResult(file, env, fs) ==
  IF file.st \in {"no_cwd", "unreadable"} THEN ConfigErr("err_io")
  ELSE LET st0 == [piper |-> None, model |-> None, speed |-> DefaultSpeed]
           st1 == IF file.st = "file" THEN ParseLines(st0, file.lines) ELSE st0
           st2 == EnvOverride(st1, env)
           piper_path == IF st2.piper.some THEN st2.piper.v ELSE DefaultPiper
           model_path == IF st2.model.some THEN st2.model.v ELSE DefaultModel
       IN IF piper_path \notin fs THEN ConfigErr("err_piper")
          ELSE IF model_path \notin fs THEN ConfigErr("err_model")
          ELSE [st |-> "ok", piper_path |-> piper_path, model_path |-> model_path,
                speed |-> st2.speed]

\* main.rs:72-82 the narrator is Some exactly when load() returned Ok
Boot ==
  /\ pc = "boot"
  /\ config' = LoadResult(cfg_file, env_vars, fs_exists)
  /\ narrator' = (config'.st = "ok")
  /\ pc' = Ret("loop")
  /\ UNCHANGED <<caller, is_f9, is_f10, was_f9, was_f10, trace, rec_open>>
  /\ UNCHANGED <<recVars, sttVars, cfg_file, env_vars, fs_exists>>
  /\ UNCHANGED <<platform, current_process, alive, next_pid, playing_ret,
                 f10_obs, sel, sp_piper, sp_ret, sp_spawned, sp_text, killed>>

\* Lines a tts_config.txt is made of in the checked environments.
ConfigLines ==
  { <<"PIPER_PATH", "=", "a">>,
    <<"sp", "PIPER_PATH", "sp", "=", "sp", "b", "sp">>,
    <<"PIPER_MODEL", "=", "m">>,
    <<"SPEED", "=", "2.0">>,
    <<"SPEED", "=", "fast">>,
    <<"#", "PIPER_PATH", "=", "b">>,
    <<"sp">>,
    <<"PIPER_MODEL">>,
    <<"VOICE", "=", "a">> }

ConfigFiles ==
  {[st |-> x, lines |-> <<>>] : x \in {"absent", "unreadable", "no_cwd"}}
    \cup {[st |-> "file", lines |-> l] : l \in SeqsUpTo(ConfigLines, MaxLines)}

Environments ==
  [PIPER_PATH : {None, Some(<<"a">>), Some(<<"e">>)},
   PIPER_MODEL : {None, Some(<<"n">>)},
   SPEED : {None, Some(<<"3.0">>)}]

FileSystems ==
  { {DefaultPiper, DefaultModel, <<"a">>, <<"b">>, <<"e">>, <<"m">>, <<"n">>},
    {DefaultPiper, <<"a">>, <<"e">>, <<"m">>},
    {DefaultModel, <<"b">>, <<"n">>},
    {} }

InitLoad ==
  /\ pc = "boot" /\ caller = "harness"
  /\ MainNew /\ RecorderNew /\ SttNew /\ NarratorNew
  /\ device = TRUE /\ platform = "windows" /\ narrator = FALSE
  /\ cfg_file \in ConfigFiles
  /\ env_vars \in Environments
  /\ fs_exists \in FileSystems
  /\ config = NoConfig

NextLoad == Boot

SpecLoad == InitLoad /\ [][NextLoad]_vars

(***************************************************************************)
(* Transcriber (src/transcribe.rs), WAV file, ClipboardManager             *)
(***************************************************************************)

\* audio.rs:115-118 each f32 sample is written as a 16-bit integer sample
ToWav(data) == [i \in 1..Len(data) |-> <<"i16", data[i]>>]

\* Tokens of the whisper process's standard output.
StdoutTokens == {"sp", "w", "[BLANK_AUDIO]", "[MUSICA]", "[MUSICA DE FUNDO]"}
Artifacts == {"[BLANK_AUDIO]", "[MUSICA]", "[MUSICA DE FUNDO]"}

\* Outputs of the whisper process in the checked runs.
Stdouts ==
  { <<>>,
    <<"sp", "sp">>,
    <<"sp", "w", "sp">>,
    <<"[BLANK_AUDIO]">>,
    <<"sp", "[MUSICA]", "sp", "[MUSICA DE FUNDO]">>,
    <<"w", "sp", "[BLANK_AUDIO]">>,
    <<"[MUSICA]", "sp", "w", "sp", "w">> }

\* str::replace(artifact, "")
Remove(t, artifact) == SelectSeq(t, LAMBDA x : x # artifact)

\* transcribe.rs:71-77 trim, remove the three artifacts, trim
Clean(raw) ==
  Trim(Remove(Remove(Remove(Trim(raw), "[BLANK_AUDIO]"), "[MUSICA]"), "[MUSICA DE FUNDO]"))

\* Mutant of TranscribeOk: the exit status of the whisper process is not checked.
TranscribeOk_ignoreStatus(p) == p.cwd /\ p.status \in {"exit_ok", "exit_fail"}

\* transcribe.rs:40, 54-66 transcribe returns Ok when the current directory was
\* read, the process ran and its status is success
TranscribeOk(p) == p.cwd /\ p.status = "exit_ok"

(***************************************************************************)
(* main(): the polling loop (src/main.rs:92-176)                           *)
(***************************************************************************)

\* Mutant of F9JustPressed: the key level instead of its press edge.
F9JustPressed_level == is_f9

\* main.rs:101
F9JustPressed == is_f9 /\ ~was_f9
\* main.rs:107 (else if)
F9JustReleased == ~F9JustPressed /\ ~is_f9 /\ was_f9
\* main.rs:144
F10JustPressed == is_f10 /\ ~was_f10

\* Mutant of AfterStop: an empty recording is not ignored.
AfterStop_noCheck(data) == "save"

\* main.rs:112-116 an empty recording ends the iteration (continue)
AfterStop(data) == IF data = <<>> THEN "loop" ELSE "save"

\* Mutant of AfterIsPlaying: F10 always starts a narration.
AfterIsPlaying_noCancel(playing) == "f10_copy"

\* main.rs:146-153 stop the playback if one is running, else read the selection
AfterIsPlaying(playing) == IF playing THEN "f10_stop" ELSE "f10_copy"

keysFrame == UNCHANGED <<caller, is_f9, is_f10, was_f9, was_f10>>

\* main.rs:96-98 a new iteration samples both keys
Sample ==
  /\ pc = "loop"
  /\ is_f9' \in BOOLEAN /\ is_f10' \in BOOLEAN
  /\ trace' = <<>>
  /\ pc' = "f9"
  /\ audio_data' = <<>> /\ rec_ret' = "none" /\ UNCHANGED last_start
  /\ proc' = NoProc /\ tr_ret' = "none" /\ text' = <<>> /\ tr_input' = None /\ pasted' = None
  /\ playing_ret' = "none" /\ f10_obs' = "none" /\ sel' = NoSel
  /\ sp_piper' = "none" /\ sp_ret' = "none" /\ sp_spawned' = FALSE /\ killed' = 0
  /\ sp_text' = None
  /\ UNCHANGED <<caller, was_f9, was_f10, rec_open>>
  /\ UNCHANGED <<device, stream, local_stream, buffer, lock, cb_pc, cb_chunk, next_chunk,
                 delivered, deliveredClr, returned>>
  /\ UNCHANGED <<wav_file, clipboard, platform, narrator, current_process, alive, next_pid>>
  /\ UNCHANGED loadVars

\* main.rs:101-104 F9 just pressed: recorder.start()
F9Press ==
  /\ pc = "f9" /\ F9JustPressed
  /\ pc' = "start_take"
  /\ trace' = Append(trace, "start")
  /\ rec_open' = rec_open + 1
  /\ keysFrame /\ UNCHANGED <<recVars, sttVars, narVars, loadVars>>

\* main.rs:107-110 F9 just released: recorder.stop()
F9Release ==
  /\ pc = "f9" /\ F9JustReleased
  /\ pc' = "stop_drop"
  /\ trace' = Append(trace, "stop")
  /\ rec_open' = rec_open - 1
  /\ keysFrame /\ UNCHANGED <<recVars, sttVars, narVars, loadVars>>

\* main.rs:101-141 neither branch taken
F9Idle ==
  /\ pc = "f9" /\ ~F9JustPressed /\ ~F9JustReleased
  /\ pc' = "f10"
  /\ keysFrame /\ UNCHANGED <<trace, rec_open, recVars, sttVars, narVars, loadVars>>

\* main.rs:111-118 Ok(audio_data): empty -> was_f9 = is_f9; continue
CheckEmpty ==
  /\ pc = "check_empty"
  /\ pc' = AfterStop(audio_data)
  /\ was_f9' = IF pc' = "loop" THEN is_f9 ELSE was_f9
  /\ UNCHANGED <<caller, is_f9, is_f10, was_f10, trace, rec_open>>
  /\ UNCHANGED <<recVars, sttVars, narVars, loadVars>>

\* main.rs:120-125 recorder.save_to_file(&audio_data, "temp_input.wav")
\* (audio.rs:105-122); on Err the file is missing, truncated or as it was, and
\* the iteration ends: was_f9 = is_f9; continue
Save(ok, left) ==
  /\ pc = "save"
  /\ trace' = Append(trace, "save")
  /\ IF ok
       THEN /\ wav_file' = Some(ToWav(audio_data))
            /\ pc' = "transcribe"
            /\ UNCHANGED was_f9
       ELSE /\ wav_file' = left
            /\ pc' = "loop"
            /\ was_f9' = is_f9
  /\ UNCHANGED <<caller, is_f9, is_f10, was_f10, rec_open>>
  /\ UNCHANGED <<proc, tr_ret, text, tr_input, clipboard, pasted>>
  /\ UNCHANGED <<recVars, narVars, loadVars>>

\* transcribe.rs:40-55 current_dir()?, then the whisper process runs on the file
TranscribeRun(cwd_ok, status, out) ==
  /\ pc = "transcribe"
  /\ trace' = Append(trace, "transcribe")
  /\ proc' = [cwd |-> cwd_ok,
              status |-> IF cwd_ok THEN status ELSE "not_run",
              stdout |-> IF cwd_ok /\ status = "exit_ok" THEN out ELSE <<>>]
  /\ tr_input' = IF cwd_ok /\ status # "spawn_err" THEN wav_file ELSE None
  /\ pc' = "transcribe_ret"
  /\ keysFrame /\ UNCHANGED <<rec_open, wav_file, tr_ret, text, clipboard, pasted>>
  /\ UNCHANGED <<recVars, narVars, loadVars>>

\* transcribe.rs:57-79 and main.rs:127-137 the result, and whether it is pasted
TranscribeRet ==
  /\ pc = "transcribe_ret"
  /\ tr_ret' = IF TranscribeOk(proc) THEN "ok" ELSE "err"
  /\ text' = IF TranscribeOk(proc) THEN Clean(proc.stdout) ELSE <<>>
  /\ proc' = [proc EXCEPT !.stdout = <<>>]
  /\ pc' = IF TranscribeOk(proc) /\ text' # <<>> THEN "paste" ELSE "f10"
  /\ keysFrame /\ UNCHANGED <<trace, rec_open, wav_file, tr_input, clipboard, pasted>>
  /\ UNCHANGED <<recVars, narVars, loadVars>>

\* clipboard.rs:20-47 paste_text: set the clipboard, then Ctrl+V
Paste(outcome) ==
  /\ pc = "paste"
  /\ trace' = Append(trace, "paste")
  /\ clipboard' = IF outcome = "clipboard_err" THEN clipboard ELSE text
  /\ pasted' = IF outcome = "ok" THEN Some(text) ELSE None
  /\ pc' = "f10"
  /\ keysFrame /\ UNCHANGED <<rec_open, wav_file, proc, tr_ret, text, tr_input>>
  /\ UNCHANGED <<recVars, narVars, loadVars>>

f10Frame == UNCHANGED <<caller, is_f9, is_f10, was_f9, was_f10, rec_open,
                        recVars, loadVars, platform, narrator,
                        wav_file, proc, tr_ret, text, tr_input, pasted>>

\* main.rs:144 no F10 press edge
F10Idle ==
  /\ pc = "f10" /\ ~F10JustPressed
  /\ pc' = "tail"
  /\ UNCHANGED <<trace, clipboard, current_process, alive, next_pid, playing_ret,
                 f10_obs, sel, sp_piper, sp_ret, sp_spawned, sp_text, killed>>
  /\ f10Frame

\* main.rs:168-170 no narrator
F10Unavailable ==
  /\ pc = "f10" /\ F10JustPressed /\ ~narrator
  /\ pc' = "tail"
  /\ trace' = Append(trace, "unavailable")
  /\ UNCHANGED <<clipboard, current_process, alive, next_pid, playing_ret,
                 f10_obs, sel, sp_piper, sp_ret, sp_spawned, sp_text, killed>>
  /\ f10Frame

\* main.rs:145-146 narrator.is_playing()
F10IsPlaying ==
  /\ pc = "f10" /\ F10JustPressed /\ narrator
  /\ \E tw \in TryWait(current_process) : IsPlaying(tw)
  /\ pc' = AfterIsPlaying(playing_ret' = "true")
  /\ UNCHANGED <<trace, clipboard>>
  /\ f10Frame

\* main.rs:147-151 narrator.stop()
F10Stop ==
  /\ pc = "f10_stop"
  /\ NarStop
  /\ pc' = "tail"
  /\ trace' = Append(trace, "nstop")
  /\ UNCHANGED clipboard
  /\ f10Frame

\* main.rs:154-166, 180-211 get_selected_text(): Ctrl+C copies the selection (if
\* there is one) to the clipboard, whose text is then read
F10Copy(selection, outcome) ==
  /\ pc = "f10_copy"
  /\ trace' = Append(trace, "copy")
  /\ clipboard' = IF outcome = "enigo_err" \/ ~selection.some THEN clipboard ELSE selection.v
  /\ sel' = CASE outcome = "ok" -> [st |-> "ok", v |-> clipboard']
              [] outcome = "get_text_err" -> [st |-> "ok", v |-> <<>>]
              [] OTHER -> [st |-> "err", v |-> <<>>]
  /\ pc' = IF sel'.st = "ok" /\ ~Blank(sel'.v) THEN "f10_speak" ELSE "tail"
  /\ UNCHANGED <<current_process, alive, next_pid, playing_ret, f10_obs,
                 sp_piper, sp_ret, sp_spawned, sp_text, killed>>
  /\ f10Frame

\* main.rs:159-162 narrator.speak(&text)
F10Speak ==
  /\ pc = "f10_speak"
  /\ \E piper \in PiperOutcomes, ok \in PlayerSpawns : Speak(sel.v, piper, ok)
  /\ pc' = "tail"
  /\ trace' = Append(trace, "speak")
  /\ UNCHANGED clipboard
  /\ f10Frame

\* main.rs:173-175
LoopTail ==
  /\ pc = "tail"
  /\ was_f9' = is_f9
  /\ was_f10' = is_f10
  /\ pc' = "loop"
  /\ UNCHANGED <<caller, is_f9, is_f10, trace, rec_open>>
  /\ UNCHANGED <<recVars, sttVars, narVars, loadVars>>

\* Environments main() is started in: the defaults present, or nothing configured.
MainFileSystems == { {DefaultPiper, DefaultModel}, {} }

Init ==
  /\ pc = "boot" /\ caller = "main"
  /\ MainNew /\ RecorderNew /\ SttNew /\ NarratorNew
  /\ device = TRUE
  /\ platform \in {"windows", "other"} /\ narrator = FALSE
  /\ cfg_file = NoFile /\ env_vars = NoEnv /\ fs_exists \in MainFileSystems
  /\ config = NoConfig

Next ==
  \/ Boot
  \/ Sample
  \/ F9Press \/ F9Release \/ F9Idle
  \/ RecorderSteps
  \/ CheckEmpty
  \/ \E ok \in BOOLEAN, left \in {None, Some(<<>>), wav_file} : Save(ok, left)
  \/ \E cwd_ok \in BOOLEAN, status \in {"spawn_err", "exit_fail", "exit_ok"},
        out \in Stdouts : TranscribeRun(cwd_ok, status, out)
  \/ TranscribeRet
  \/ \E outcome \in {"ok", "clipboard_err", "key_err"} : Paste(outcome)
  \/ F10Idle \/ F10Unavailable \/ F10IsPlaying \/ F10Stop
  \/ \E selection \in {None} \cup {Some(t) : t \in Texts},
        outcome \in {"ok", "enigo_err", "clipboard_err", "get_text_err"} :
          F10Copy(selection, outcome)
  \/ F10Speak
  \/ PlayerExit
  \/ LoopTail

Spec == Init /\ [][Next]_vars

\* The Narrator under either caller: the polling loop of main(), or a caller
\* that makes speak/stop/is_playing calls in any order with any text (speak is
\* public, narrate.rs:145, and main() itself never passes it a blank text).
InitAnyCaller == Init \/ InitNarrator
NextAnyCaller == Next \/ NextNarrator
SpecAnyCaller == InitAnyCaller /\ [][NextAnyCaller]_vars

(***************************************************************************)
(* Claims about the polling loop, checked under Spec                       *)
(***************************************************************************)

Called(op) == \E i \in 1..Len(trace) : trace[i] = op
Times(op) == Cardinality({i \in 1..Len(trace) : trace[i] = op})
IsPrefix(a, b) == Len(a) <= Len(b) /\ SubSeq(b, 1, Len(a)) = a

\* Positions at which was_f9 still holds the previous iteration's sample.
InIteration == pc \notin {"boot", "loop", "f9", "harness"}

\* C1: recorder.start is called in exactly the iterations that see F9 go from
\* not pressed to pressed and recorder.stop in exactly those that see it go from
\* pressed to not pressed; an iteration whose sample equals the previous one
\* calls neither; starts and stops alternate, beginning with a start (so start
\* never finds a stream held).
C1_EdgeTriggered ==
  /\ InIteration =>
       /\ Called("start") <=> (is_f9 /\ ~was_f9)
       /\ Called("stop") <=> (~is_f9 /\ was_f9)
       /\ Times("start") <= 1 /\ Times("stop") <= 1
  /\ rec_open \in {0, 1}
  /\ pc = "start_take" => stream = "none" /\ rec_open = 1
  /\ pc = "stop_drop" => rec_open = 0

\* C1 witness: F9 is held over a second iteration while the recording of a
\* second press runs: nothing is started or stopped in it.
C1_Witness ==
  /\ pc = "f10" /\ is_f9 /\ was_f9 /\ trace = <<>>
  /\ rec_open = 1 /\ stream = "playing" /\ returned # {}

F9Ops == SelectSeq(trace, LAMBDA x : x \in {"stop", "save", "transcribe", "paste"})

\* C2: after an F9 release the steps run in the order stop, save, transcribe,
\* paste, each gated by the one before: the WAV is written only for a non-empty
\* sample list, the transcriber runs only on the WAV just written from it, and
\* text is pasted only after that transcription succeeded with non-empty text.
C2_PipelineGated ==
  /\ IsPrefix(F9Ops, <<"stop", "save", "transcribe", "paste">>)
  /\ (Called("save") \/ pc = "save") => rec_ret = "stop_ok" /\ audio_data # <<>>
  /\ (Called("transcribe") \/ pc = "transcribe") => wav_file = Some(ToWav(audio_data))
  /\ tr_input.some => tr_input = Some(ToWav(audio_data))
  /\ (Called("paste") \/ pc = "paste") =>
        tr_ret = "ok" /\ text # <<>> /\ tr_input = Some(ToWav(audio_data))
  /\ pasted.some => Called("paste") /\ pasted.v = text

\* C2 witness: the text of a one-chunk recording has been pasted.
C2_Witness ==
  /\ pc = "f10" /\ pasted = Some(<<"w">>) /\ clipboard = <<"w">>
  /\ audio_data = Chunk(1) /\ F9Ops = <<"stop", "save", "transcribe", "paste">>

F10Ops == SelectSeq(trace, LAMBDA x : x \in {"nstop", "copy", "speak", "unavailable"})

\* C3: an F10 press edge handled while the tracked player is running stops the
\* playback (player killed, handle cleared, nothing playing afterwards) and in
\* that iteration neither copies the selection nor speaks; an F10 press edge
\* handled while nothing is playing copies the selection and speaks it exactly
\* when it was read and is not blank.
C3_CancelOnRepress ==
  /\ pc = "f10_stop" => f10_obs = "running" /\ F10Ops = <<>>
  /\ pc \in {"f10_copy", "f10_speak"} => f10_obs \in {"untracked", "finished"}
  /\ (pc = "tail" /\ F10JustPressed /\ narrator) =>
       /\ f10_obs = "running" =>
            /\ F10Ops = <<"nstop">>
            /\ current_process = 0 /\ alive = {}
            /\ sel = NoSel /\ ~sp_spawned /\ sp_ret = "none"
       /\ f10_obs \in {"untracked", "finished"} =>
            /\ IsPrefix(F10Ops, <<"copy", "speak">>) /\ Called("copy")
            /\ Called("speak") <=> (sel.st = "ok" /\ ~Blank(sel.v))

\* C3 witness: the F10 press stopped a player that was still running.
C3_Witness ==
  /\ pc = "tail" /\ F10JustPressed /\ F10Ops = <<"nstop">>
  /\ f10_obs = "running" /\ killed = 1

\* The result transcribe() computes from the whisper output: the artifacts
\* removed and the surrounding whitespace trimmed.
Cleaned(raw) == Trim(SelectSeq(raw, LAMBDA x : x \notin Artifacts))

C6_ResultInv(error_causes) ==
  tr_ret # "none" => (tr_ret = "err" <=> error_causes)

\* C6 as stated: transcribe returns an error exactly when the executable cannot
\* be run or exits with a non-success status.
C6_Original == C6_ResultInv(proc.status \in {"spawn_err", "exit_fail"})

C6_ErrorNotPasted ==
  tr_ret = "err" => ~Called("paste") /\ ~pasted.some /\ text = <<>> /\ pc # "paste"

C6_ReturnStep ==
  (pc = "transcribe_ret" /\ pc' # "transcribe_ret") =>
     IF tr_ret' = "err"
       THEN clipboard' = clipboard /\ pc' = "f10"
       ELSE text' = Cleaned(proc.stdout)

\* C6 (amended): transcribe returns an error exactly when the current directory
\* cannot be read, the executable cannot be run, or it exits with a non-success
\* status, and otherwise returns the cleaned standard output; on an error the
\* loop pastes nothing, leaves the clipboard as it is and goes on to the F10
\* handling of the iteration.
C6_TranscribeErrors ==
  /\ [](C6_ResultInv(~proc.cwd \/ proc.status \in {"spawn_err", "exit_fail"}))
  /\ [](C6_ErrorNotPasted)
  /\ [][C6_ReturnStep]_vars

\* C6 witness: the whisper process exited with a failure status and the
\* iteration ended without a paste.
C6_Witness ==
  /\ pc = "tail" /\ tr_ret = "err" /\ proc.status = "exit_fail"
  /\ F9Ops = <<"stop", "save", "transcribe">> /\ clipboard = <<>>

C10_Result ==
  playing_ret # "none" =>
     /\ playing_ret = "true" <=> f10_obs = "running"
     /\ playing_ret = "false" /\ pc \in {"f10_copy", "f10_speak"} => current_process = 0

C10_CheckStep ==
  (pc = "f10" /\ pc' \notin {"f10", "tail"}) =>
     IF current_process # 0 /\ current_process \in alive
       THEN playing_ret' = "true" /\ current_process' = current_process /\ pc' = "f10_stop"
       ELSE playing_ret' = "false" /\ current_process' = 0 /\ pc' = "f10_copy"

\* C10: is_playing returns true exactly when a player is tracked and has not
\* exited; when the tracked player has exited (or its status cannot be read)
\* the handle is cleared and false is returned, so an F10 press edge handled
\* after a narration finished on its own goes on to a new narration, not to a
\* stop.
C10_IsPlaying == [](C10_Result) /\ [][C10_CheckStep]_vars

\* C10 witness: a narration had finished on its own and the F10 press started
\* a new one.
C10_Witness ==
  /\ pc = "tail" /\ f10_obs = "finished" /\ playing_ret = "false"
  /\ F10Ops = <<"copy", "speak">> /\ sp_spawned /\ current_process = 2

(***************************************************************************)
(* Claims about the AudioRecorder, checked under SpecRecorder              *)
(***************************************************************************)

ChunkIds(s) == {s[i][1] : i \in 1..Len(s)}
WholeChunks(s) ==
  /\ Len(s) % 2 = 0
  /\ \A i \in 1..Len(s) : i % 2 = 1 => <<s[i], s[i + 1]>> = Chunk(s[i][1])
NoDup(s) == \A i, j \in 1..Len(s) : s[i] = s[j] => i = j

\* What the running callback has still to append.
CbPending ==
  CASE cb_pc \in {"lock", "extend1"} -> Chunk(cb_chunk)
    [] cb_pc = "extend2" -> <<Chunk(cb_chunk)[2]>>
    [] OTHER -> <<>>

C7_LockHeld ==
  /\ pc \in {"start_clear", "stop_take"} => lock = "main"
  /\ cb_pc \in {"extend1", "extend2"} => lock = "cb"
  /\ lock = "main" => pc \in {"start_clear", "stop_take"}
  /\ lock = "cb" => cb_pc \in {"extend1", "extend2"}

C7_ChunksWhole ==
  /\ buffer \o CbPending = deliveredClr
  /\ WholeChunks(deliveredClr) /\ NoDup(deliveredClr)
  /\ WholeChunks(audio_data) /\ NoDup(audio_data)
  /\ ChunkIds(deliveredClr) \cap returned = {}
  /\ ChunkIds(audio_data) \subseteq returned

\* The callback thread changes the buffer, the mutex and its own position only.
C7_OnlyBufferShared ==
  (cb_pc' # cb_pc) => UNCHANGED <<mainVars, device, stream, local_stream, audio_data, rec_ret>>

\* A change of the buffer is made by the thread that holds the mutex.
C7_ChangeUnderLock ==
  (buffer' # buffer) =>
     \/ lock = "cb" /\ cb_pc' # cb_pc /\ pc' = pc
     \/ lock = "main" /\ pc' # pc /\ cb_pc' = cb_pc

\* C7: the sample buffer is the only state the callback thread shares with the
\* main thread and every access to it (the callback's append, start's clear,
\* stop's take) is made holding the one mutex; under every interleaving each
\* delivered chunk is appended whole and exactly once, and a take returns only
\* whole chunks, none of which an earlier stop returned.
C7_SharedBufferUnderMutex ==
  /\ [](C7_LockHeld /\ C7_ChunksWhole)
  /\ [][C7_OnlyBufferShared /\ C7_ChangeUnderLock]_vars

\* C7 witness: a callback is in the middle of its append while stop() is under
\* way, after an earlier stop has already returned a chunk.
C7_Witness ==
  /\ cb_pc = "extend2" /\ pc = "stop_sleep"
  /\ returned # {} /\ Len(buffer) = 1

C9_TakeIs(d) == (pc = "stop_take" /\ pc' # "stop_take") => audio_data' = d

\* C9 as stated: stop returns exactly the samples delivered since the most
\* recent successful start.
C9_Original == [][C9_TakeIs(delivered)]_vars

C9_AfterStop ==
  (pc = "harness" /\ rec_ret = "stop_ok") =>
     buffer = <<>> /\ stream = "none" /\ local_stream = "none" /\ ~StreamRunning

C9_OneStream ==
  /\ NumStreams <= 1
  /\ pc \in {"start_config", "start_lock", "start_clear", "start_build", "start_play"}
       => stream = "none"
  /\ pc = "start_build" => buffer = <<>>
  /\ local_stream # "none" => pc \in {"start_play", "start_store"}

\* C9 (amended): stop returns exactly the samples delivered since the buffer was
\* last emptied (by the clear of the most recent start that got that far, or by
\* the previous stop), in delivery order; after stop returns the buffer is empty
\* and no stream is held; a start drops a held stream before it clears the
\* buffer and builds the new one, so at most one capture stream exists.
C9_StopReturnsRecording ==
  /\ [][C9_TakeIs(deliveredClr)]_vars
  /\ [](C9_AfterStop /\ C9_OneStream)

\* C9 witness: stop returned exactly chunk 2 after a start issued while the
\* stream was held had dropped that stream and cleared chunk 1.
C9_Witness ==
  /\ pc = "harness" /\ rec_ret = "stop_ok"
  /\ audio_data = Chunk(2) /\ next_chunk = 2 /\ returned = {2}

(***************************************************************************)
(* Claims about the Narrator, checked under SpecNarrator                   *)
(***************************************************************************)

\* C4: the narrator tracks at most one player, at most one player it started is
\* running, and every running player is the one held in current_process; a
\* speak that spawned a player leaves that new player as the only one running.
C4_SinglePlayerTracked ==
  /\ Cardinality(alive) <= 1
  /\ alive \subseteq {current_process}
  /\ current_process \in 0..next_pid
  /\ (trace = <<"speak">> /\ sp_spawned) => current_process = next_pid /\ alive \subseteq {next_pid}

\* C4 witness: a second speak replaced a player that was still running.
C4_Witness ==
  /\ trace = <<"speak">> /\ sp_spawned
  /\ next_pid = 2 /\ alive = {2} /\ current_process = 2 /\ killed = 1

\* C5 as stated: when piper cannot be spawned or exits with a non-success
\* status, speak returns an error, starts no player and leaves current_process
\* empty; a player is spawned and tracked only after piper exited successfully.
C5_SpeakPropagatesExit ==
  trace = <<"speak">> =>
    /\ sp_piper \in {"spawn_err", "exit_fail"} =>
          sp_ret = "err" /\ ~sp_spawned /\ current_process = 0 /\ alive = {}
    /\ sp_spawned => sp_piper = "exit_ok"

(***************************************************************************)
(* Claims about NarratorConfig::load, checked under SpecLoad               *)
(***************************************************************************)

\* The value the config file gives for a key: that of its last entry for it.
FileEntries(key) ==
  IF cfg_file.st # "file" THEN {}
  ELSE {i \in 1..Len(cfg_file.lines) :
          IsEntry(cfg_file.lines[i]) /\ EntryKey(cfg_file.lines[i]) = <<key>>}
FileGives(key) == FileEntries(key) # {}
FileValue(key) ==
  EntryValue(cfg_file.lines[CHOOSE i \in FileEntries(key) : \A j \in FileEntries(key) : j <= i])

\* environment variable > config file entry > default
Priority(key, dflt) ==
  IF env_vars[key].some THEN env_vars[key].v
  ELSE IF FileGives(key) THEN FileValue(key)
  ELSE dflt

Loaded == pc = "harness" /\ config.st # "none"
LoadIoOk == cfg_file.st \in {"absent", "file"}

F10Actions == Times("nstop") + Times("copy") + Times("unavailable")

\* The iteration that just ended sampled an F10 press edge and never reached
\* the test of main.rs:144: it left through one of the `continue` statements of
\* main.rs:115 and 124, which skip main.rs:174.
F10EdgePending == pc = "loop" /\ is_f10 /\ ~was_f10

\* An iteration that reaches main.rs:173 has run one F10 action if it sampled a
\* press edge and none otherwise; no iteration runs two.
C11_OncePerIteration ==
  /\ F10Actions <= 1
  /\ pc = "tail" => F10Actions = (IF F10JustPressed THEN 1 ELSE 0)
  /\ F10EdgePending => F10Actions = 0 /\ Called("stop") /\ ~is_f9 /\ ~was_f9

\* The early exits of main.rs:112-116 and 121-125 set was_f9 and leave was_f10.
C11_EarlyExit ==
  (pc \in {"check_empty", "save"} /\ pc' = "loop") =>
     was_f9' = is_f9 /\ was_f10' = was_f10 /\ F10Actions = 0

\* C11 as stated: every F10 press edge the loop samples triggers exactly one
\* F10 action, also when it is first sampled in an iteration that ends early on
\* an empty recording or a failed save: the early exits update only was_f9, and
\* the edge left pending is seen again by the next iteration (is_f10 holds at
\* its sample, was_f10 is still false), which acts on it; it is never dropped.
C11_F10EdgeActsOnce ==
  /\ [](C11_OncePerIteration)
  /\ [][C11_EarlyExit]_vars
  /\ [][F10EdgePending => is_f10']_vars

(***************************************************************************)
(* speak with a blank text, checked under SpecAnyCaller                    *)
(***************************************************************************)

\* A step that is a call of Narrator::speak: F10Speak in the loop; for the
\* other caller the step after which the last call is a speak and that changed
\* what a speak call records (a repeated call with the same text and the same
\* outcome changes nothing and is a stuttering step).
SpeakCall ==
  \/ pc = "f10_speak" /\ pc' = "tail"
  \/ /\ pc = "harness" /\ trace' = <<"speak">>
     /\ <<trace, sp_text, sp_ret, sp_piper, sp_spawned>>'
          # <<trace, sp_text, sp_ret, sp_piper, sp_spawned>>

\* speak(text) with text.trim().is_empty(): Err("No text to speak"), no process
\* spawned, the tracked player neither stopped nor untracked.
C12_SpeakBlank ==
  (SpeakCall /\ Trim(sp_text'.v) = <<>>) =>
     /\ sp_ret' = "err_no_text" /\ ~sp_spawned' /\ sp_piper' = "none"
     /\ UNCHANGED <<current_process, alive, next_pid, killed, clipboard>>

\* The loop when the selection it read is blank: get_selected_text was the
\* only F10 call of the iteration, speak was not called, and the narrator is
\* as is_playing left it (nothing tracked, no player spawned or killed).
C12_LoopBlank ==
  (caller = "main" /\ sel.st = "ok" /\ Trim(sel.v) = <<>>) =>
     /\ pc \in {"tail", "loop"}
     /\ F10Ops = <<"copy">> /\ playing_ret = "false"
     /\ sp_text = None /\ sp_ret = "none" /\ ~sp_spawned /\ killed = 0
     /\ current_process = 0

\* C12: speak with an empty or whitespace-only text returns the error "No
\* text to speak" and changes nothing (no process spawned, a running playback
\* neither stopped nor untracked); the main loop starts no narration and stops
\* nothing when the selection it captured is blank.
C12_BlankTextNoEffect ==
  /\ [][C12_SpeakBlank]_vars
  /\ [](C12_LoopBlank)

\* C12 witness: speak was called with a whitespace-only text while the player
\* of an earlier speak was running; it returned the error and the player is
\* still running and tracked.
C12_Witness ==
  /\ pc = "harness" /\ trace = <<"speak">>
  /\ sp_text = Some(<<"sp">>) /\ sp_ret = "err_no_text"
  /\ current_process = 1 /\ alive = {1} /\ next_pid = 1

(***************************************************************************)
(* recorder.start failing on an F9 press, checked under Spec               *)
(***************************************************************************)

StartPcs == {"start_take", "start_sleep", "start_config", "start_lock",
             "start_clear", "start_build", "start_play", "start_store"}
StopPcs == {"stop_drop", "stop_sleep", "stop_lock", "stop_take"}

\* Once start has returned Err, and until the next start is called, no stream
\* exists, no callback runs and the buffer is empty.
C13_NothingRecorded ==
  (last_start = "err" /\ pc \notin StartPcs) =>
     /\ stream = "none" /\ local_stream = "none" /\ cb_pc = "idle"
     /\ buffer = <<>> /\ deliveredClr = <<>>

\* The F9 release after a failed start: stop is the only call of the F9
\* branch, it returns an empty list, nothing is saved, transcribed or pasted,
\* and the iteration ends as an empty recording (main.rs:112-116).
C13_ReleaseIgnored ==
  (last_start = "err" /\ Called("stop")) =>
     /\ pc \in StopPcs \cup {"check_empty", "loop"}
     /\ trace = <<"stop">>
     /\ rec_ret = "stop_ok" => audio_data = <<>>
     /\ tr_ret = "none" /\ ~tr_input.some /\ ~pasted.some /\ text = <<>>

\* A start that returns Err returns to the loop, at the F10 test of main.rs:144,
\* and leaves temp_input.wav and the clipboard alone.
C13_LoopGoesOn ==
  (pc \in StartPcs /\ last_start' = "err" /\ pc' \notin StartPcs) =>
     pc' = "f10" /\ UNCHANGED <<wav_file, clipboard, was_f9, is_f9>>

\* C13: when recorder.start fails on an F9 press, at whichever point, the loop
\* keeps running, and the following F9 release transcribes and pastes nothing:
\* stop returns an empty sample list (never samples left over from an earlier
\* recording) and the release is ignored as an empty recording.
C13_FailedStartIgnored ==
  /\ [](C13_NothingRecorded /\ C13_ReleaseIgnored)
  /\ [][C13_LoopGoesOn]_vars

\* C13 witness: an earlier recording returned samples, the start of the next
\* press failed, and the release that followed was ignored as empty.
C13_Witness ==
  /\ pc = "loop" /\ last_start = "err" /\ trace = <<"stop">>
  /\ rec_ret = "stop_ok" /\ audio_data = <<>>
  /\ returned # {} /\ wav_file.some /\ ~is_f9 /\ ~was_f9

====
